---- MODULE Spec2Model ----
(***************************************************************************)
(* A model of vite-plugin-import-map (src/src/index.ts): the plugin object *)
(* returned by importMapPlugin, its closure state (chunkMapping,           *)
(* baseNameCounts, importMap, resolvedAssetsDir) and its three hooks       *)
(* configResolved, generateBundle (one action per loop iteration of each   *)
(* of its four passes) and transformIndexHtml.                             *)
(*                                                                         *)
(* A JavaScript string is a sequence of one-character strings.  A chunk's  *)
(* code is such a string, written in a small module language that stands   *)
(* for the emitted JavaScript, one statement per line:                     *)
(*     I'src'     import ... from 'src'        (ImportDeclaration)         *)
(*     E'src'     export {..} from 'src'       (ExportNamedDeclaration)    *)
(*     Ex         export {x}                   (the same, without source)  *)
(*     A'src'     export * from 'src'          (ExportAllDeclaration)      *)
(*     D('src')   import('src')                (ImportExpression, Literal) *)
(*     D(v)       import(v)                    (ImportExpression, computed)*)
(*     #f.map     //# sourceMappingURL=f.map   (comment)                   *)
(*     t...       any other statement                                      *)
(*     !          text acorn rejects                                       *)
(* Either quote character may delimit a source literal.                    *)
(***************************************************************************)
EXTENDS Naturals, Sequences, FiniteSets, TLC

(***************************************************************************)
(* Bounds of the model.                                                    *)
(***************************************************************************)
\* chunks in one bundle passed to generateBundle
MaxChunks == 3
\* generateBundle invocations on one plugin instance
MaxInvocations == 2
\* characters kept of a digest (the code keeps 8 of a base64url sha256)
HashLen == 4
\* statements in the code of a generated chunk
MaxStmts == 2

(***************************************************************************)
(* Strings.                                                                *)
(***************************************************************************)
Chars ==
    << "\n", "!", "\"", "#", "'", "(", ")", "-", ".", "/",
       "0", "1", "2", "3", "4", "5", "6", "7", "8", "9", ":",
       "A", "D", "E", "I",
       "a", "b", "c", "e", "j", "m", "n", "p", "s", "t", "u", "v", "x", "y", "z" >>

CharSet == { Chars[k] : k \in 1..Len(Chars) }

\* the code unit of a character: its place in Chars
CharCode == [ c \in CharSet |-> CHOOSE k \in 1..Len(Chars) : Chars[k] = c ]

Digits == << "0", "1", "2", "3", "4", "5", "6", "7", "8", "9" >>

NL == "\n"
HASHMARK == "#"
Quotes == { "'", "\"" }

\* String.prototype.startsWith
StartsWith(s, p) ==
    /\ Len(p) <= Len(s)
    /\ SubSeq(s, 1, Len(p)) = p

\* String.prototype.endsWith
EndsWith(s, p) ==
    /\ Len(p) <= Len(s)
    /\ SubSeq(s, Len(s) - Len(p) + 1, Len(s)) = p

\* String.prototype.includes, for a one-character needle
Includes(s, c) == \E k \in 1..Len(s) : s[k] = c

\* the index of the last "/" of s, 0 when there is none
LastSlash(s) ==
    IF Includes(s, "/")
    THEN CHOOSE k \in 1..Len(s) :
            /\ s[k] = "/"
            /\ \A l \in (k+1)..Len(s) : s[l] # "/"
    ELSE 0

\* s.split('/').pop()
SplitPop(s) == SubSeq(s, LastSlash(s) + 1, Len(s))

\* s.split('/').slice(0, -1).join('/')
SplitInit(s) == SubSeq(s, 1, LastSlash(s) - 1)

\* fileName.includes('/') ? fileName.split('/').pop() : fileName
FilenameOnly(fileName) ==
    IF Includes(fileName, "/") THEN SplitPop(fileName) ELSE fileName

\* a.localeCompare(b) < 0, by code units
RECURSIVE StrLess(_, _)
StrLess(a, b) ==
    IF b = << >> THEN FALSE
    ELSE IF a = << >> THEN TRUE
    ELSE IF a[1] # b[1] THEN CharCode[a[1]] < CharCode[b[1]]
    ELSE StrLess(Tail(a), Tail(b))

RECURSIVE Pow(_, _)
Pow(b, e) == IF e = 0 THEN 1 ELSE b * Pow(b, e - 1)

\* the digest of a string as a number: a polynomial over the code units, kept
\* to the width of HashLen digits
RECURSIVE Digest(_, _)
Digest(s, acc) ==
    IF s = << >> THEN acc
    ELSE Digest(Tail(s), (acc * 31 + CharCode[s[1]]) % Pow(10, HashLen))

\* the last n decimal digits of v, as a string
RECURSIVE DigitString(_, _)
DigitString(v, n) ==
    IF n = 0 THEN << >>
    ELSE DigitString(v \div 10, n - 1) \o << Digits[(v % 10) + 1] >>

computeHash(input) == DigitString(Digest(input, 7), HashLen)

(***************************************************************************)
(* acorn: Parser.parse and acorn-walk's simple walk, on the module         *)
(* language of the header.  Offsets are JavaScript's: 0-based, end         *)
(* exclusive.                                                              *)
(***************************************************************************)
\* the 1-based index one past the end of the line that starts at index p
RECURSIVE LineEnd(_, _)
LineEnd(code, p) ==
    IF p > Len(code) \/ code[p] = NL THEN p ELSE LineEnd(code, p + 1)

NoNode == [ type |-> "None", sourceType |-> "None", value |-> << >>, start |-> 0, end |-> 0 ]

\* a quoted literal: q ... q with no q inside
IsQuoted(s) ==
    /\ Len(s) >= 2
    /\ s[1] \in Quotes
    /\ s[Len(s)] = s[1]
    /\ \A k \in 2..(Len(s) - 1) : s[k] # s[1]

DeclType(c) ==
    CASE c = "I" -> "ImportDeclaration"
      [] c = "E" -> "ExportNamedDeclaration"
      [] c = "A" -> "ExportAllDeclaration"

\* one statement: [ok, node]; off is the 0-based offset of its first character
ParseLine(line, off) ==
    IF line = << >> THEN [ ok |-> TRUE, node |-> NoNode ]
    ELSE IF line[1] \in { "I", "E", "A" } /\ IsQuoted(Tail(line)) THEN
        [ ok |-> TRUE,
          node |-> [ type |-> DeclType(line[1]), sourceType |-> "Literal",
                     value |-> SubSeq(line, 3, Len(line) - 1),
                     start |-> off + 1, end |-> off + Len(line) ] ]
    ELSE IF line = << "E", "x" >> THEN
        [ ok |-> TRUE,
          node |-> [ NoNode EXCEPT !.type = "ExportNamedDeclaration" ] ]
    ELSE IF /\ Len(line) >= 4
            /\ line[1] = "D" /\ line[2] = "(" /\ line[Len(line)] = ")"
            /\ IsQuoted(SubSeq(line, 3, Len(line) - 1)) THEN
        [ ok |-> TRUE,
          node |-> [ type |-> "ImportExpression", sourceType |-> "Literal",
                     value |-> SubSeq(line, 4, Len(line) - 2),
                     start |-> off + 2, end |-> off + Len(line) - 1 ] ]
    ELSE IF line = << "D", "(", "v", ")" >> THEN
        [ ok |-> TRUE,
          node |-> [ type |-> "ImportExpression", sourceType |-> "Identifier",
                     value |-> << >>, start |-> off + 2, end |-> off + 3 ] ]
    ELSE IF line[1] \in { "t", HASHMARK } THEN [ ok |-> TRUE, node |-> NoNode ]
    ELSE [ ok |-> FALSE, node |-> NoNode ]

\* Parser.parse(chunk.code, ...) then walk(ast, ...): [ok, nodes], the nodes the
\* four visitors are called with, in source order; ok FALSE when parse throws
RECURSIVE ParseFrom(_, _)
ParseFrom(code, p) ==
    IF p > Len(code) THEN [ ok |-> TRUE, nodes |-> << >> ]
    ELSE
        LET e    == LineEnd(code, p)
            one  == ParseLine(SubSeq(code, p, e - 1), p - 1)
            rest == ParseFrom(code, e + 1)
        IN  IF ~one.ok \/ ~rest.ok THEN [ ok |-> FALSE, nodes |-> << >> ]
            ELSE [ ok |-> TRUE,
                   nodes |-> IF one.node.type = "None" THEN rest.nodes
                             ELSE << one.node >> \o rest.nodes ]

Parse(code) == ParseFrom(code, 1)

(***************************************************************************)
(* magic-string: overwrite(start, end, content) is in the coordinates of   *)
(* the original text, whatever was overwritten before; toString() renders  *)
(* the original with every overwritten range replaced.                     *)
(***************************************************************************)
RECURSIVE MagicToString(_, _, _)
MagicToString(original, edits, p) ==
    IF p >= Len(original) THEN << >>
    ELSE IF \E k \in 1..Len(edits) : edits[k].start = p THEN
        LET k == CHOOSE k \in 1..Len(edits) : edits[k].start = p
        IN  edits[k].replacement \o MagicToString(original, edits, edits[k].end)
    ELSE << original[p + 1] >> \o MagicToString(original, edits, p + 1)

\* importsToTransform.sort((a, b) => b.start - a.start)
RECURSIVE SortDescending(_)
SortDescending(ops) ==
    IF ops = << >> THEN << >>
    ELSE
        LET k == CHOOSE k \in 1..Len(ops) :
                    \A l \in 1..Len(ops) : ops[l].start <= ops[k].start
        IN  << ops[k] >> \o
            SortDescending(SubSeq(ops, 1, k - 1) \o SubSeq(ops, k + 1, Len(ops)))

(***************************************************************************)
(* The two regular expressions of the rehash step.                         *)
(***************************************************************************)
MAPEXT == << ".", "m", "a", "p" >>

\* code.replace(/\/\/# sourceMappingURL=.*$/gm, '')
RECURSIVE StripSourceMaps(_)
StripSourceMaps(code) ==
    IF code = << >> THEN << >>
    ELSE IF code[1] = HASHMARK
    THEN StripSourceMaps(SubSeq(code, LineEnd(code, 1), Len(code)))
    ELSE << code[1] >> \o StripSourceMaps(Tail(code))

\* the end index of the match of ([^\s]+)(\.map) after the comment mark at k:
\* the last ".map" of the run of non-space characters, with a character before it;
\* 0 when there is no match
MapMatchEnd(code, k) ==
    LET e    == LineEnd(code, k + 1)
        ends == { m \in (k + 5)..(e - 1) : SubSeq(code, m - 3, m) = MAPEXT }
    IN  IF ends = { } THEN 0 ELSE CHOOSE m \in ends : \A n \in ends : n <= m

\* code.replace(/(\/\/# sourceMappingURL=)([^\s]+)(\.map)/, `$1${newFileName}.map`)
ReplaceMapComment(code, newFileName) ==
    LET marks == { k \in 1..Len(code) : code[k] = HASHMARK /\ MapMatchEnd(code, k) # 0 }
    IN  IF marks = { } THEN code
        ELSE
            LET k == CHOOSE k \in marks : \A l \in marks : k <= l
            IN  SubSeq(code, 1, k) \o newFileName \o MAPEXT
                    \o SubSeq(code, MapMatchEnd(code, k) + 1, Len(code))

(***************************************************************************)
(* JavaScript containers.  A Map or a Record<string, string> whose order   *)
(* is never read is a function; bundle and importMap.imports, whose key    *)
(* order Object.entries reads, are sequences of [key, value] in insertion  *)
(* order.  undefined, null and '' are all falsy where the code tests them, *)
(* and are all the empty string here.                                      *)
(***************************************************************************)
EmptyMap == [ k \in { } |-> << >> ]

\* Map.prototype.set
MapSet(m, k, v) == [ x \in (DOMAIN m) \cup { k } |-> IF x = k THEN v ELSE m[x] ]

\* Map.prototype.get, undefined being << >>
MapGet(m, k) == IF k \in DOMAIN m THEN m[k] ELSE << >>

\* (baseNameCounts.get(name) || 0)
CountGet(m, k) == IF k \in DOMAIN m THEN m[k] ELSE 0

HasKey(obj, k) == \E n \in 1..Len(obj) : obj[n].key = k

KeyIndex(obj, k) == CHOOSE n \in 1..Len(obj) : obj[n].key = k

\* obj[k] = v: an own key keeps its place, a new key goes last
ObjSet(obj, k, v) ==
    IF HasKey(obj, k)
    THEN [ obj EXCEPT ![KeyIndex(obj, k)] = [ key |-> k, value |-> v ] ]
    ELSE Append(obj, [ key |-> k, value |-> v ])

\* delete obj[k]
ObjDelete(obj, k) ==
    IF HasKey(obj, k)
    THEN SubSeq(obj, 1, KeyIndex(obj, k) - 1) \o SubSeq(obj, KeyIndex(obj, k) + 1, Len(obj))
    ELSE obj

\* obj[k], for a bundle: the id of the chunk object, 0 for undefined
ObjGetId(obj, k) == IF HasKey(obj, k) THEN obj[KeyIndex(obj, k)].value ELSE 0

(***************************************************************************)
(* The plugin instance: importMapPlugin(options).                          *)
(***************************************************************************)
ASSETS == << "a", "s", "s", "e", "t", "s" >>
JS == << ".", "j", "s" >>

\* options?.assetsDir ?? 'assets', and the three collections of the closure
NewPlugin(opts) ==
    [ chunkMapping      |-> EmptyMap,
      baseNameCounts    |-> EmptyMap,
      imports           |-> << >>,
      resolvedAssetsDir |-> IF opts.assetsDir = << >> THEN ASSETS ELSE opts.assetsDir ]

\* configResolved(config)
configResolved(p, opts, configAssetsDir) ==
    IF opts.assetsDir = << >> /\ configAssetsDir # << >>
    THEN [ p EXCEPT !.resolvedAssetsDir = configAssetsDir ]
    ELSE p

\* chunk.type !== 'chunk' || !fileName.endsWith('.js')
NotScriptChunk(fileName, chunk) ==
    chunk.type # "chunk" \/ ~EndsWith(fileName, JS)

\* const pathPrefix = useAbsolutePaths ? '/' : './'
PathPrefix(opts) == IF opts.useAbsolutePaths THEN << "/" >> ELSE << ".", "/" >>

\* `${pathPrefix}${resolvedAssetsDir}/${filenameOnly}`
ServedPath(p, opts, filenameOnly) ==
    PathPrefix(opts) \o p.resolvedAssetsDir \o << "/" >> \o filenameOnly

(***************************************************************************)
(* generateBundle.  p is the plugin's closure state; c is the invocation:  *)
(* bundle (the OutputBundle, keys to chunk objects), heap (the chunk       *)
(* objects, by identity), bundleEntries (the Object.entries snapshot),     *)
(* fileRenames, thrown, and two records of what the invocation computed:   *)
(* specOf (the moduleSpec the second pass gave each object) and rewritten  *)
(* (magicString.toString() of each transformed object).                    *)
(***************************************************************************)
\* const bundleEntries = Object.entries(bundle)
NewCall(bundle, heap) ==
    [ bundle        |-> bundle,
      heap          |-> heap,
      bundleEntries |-> bundle,
      fileRenames   |-> << >>,
      thrown        |-> FALSE,
      specOf        |-> [ k \in 1..Len(heap) |-> << >> ],
      rewritten     |-> [ k \in 1..Len(heap) |-> << >> ] ]

\* first pass, one iteration
FirstPassStep(p, c, n) ==
    LET fileName == c.bundleEntries[n].key
        chunk    == c.heap[c.bundleEntries[n].value]
    IN  IF NotScriptChunk(fileName, chunk) THEN [ p |-> p, c |-> c ]
        ELSE [ p |-> [ p EXCEPT !.baseNameCounts =
                         MapSet(@, chunk.name, CountGet(@, chunk.name) + 1) ],
               c |-> c ]

\* the identity the fingerprint is taken of
SourcePath(chunk) ==
    IF chunk.facadeModuleId # << >> THEN chunk.facadeModuleId
    ELSE IF Len(chunk.moduleIds) > 0 THEN chunk.moduleIds[1]
    ELSE IF Len(chunk.modules) > 0 THEN chunk.modules[1]
    ELSE << >>

\* const moduleSpec = count > 1 ? `${baseName}-${computeHash(hashInput)}` : baseName
ModuleSpec(p, chunk) ==
    LET baseName   == chunk.name
        count      == CountGet(p.baseNameCounts, baseName)
        sourcePath == SourcePath(chunk)
        hashInput  == IF sourcePath # << >> THEN sourcePath \o << ":" >> \o baseName
                      ELSE baseName
    IN  IF count > 1 THEN baseName \o << "-" >> \o computeHash(hashInput) ELSE baseName

\* second pass, one iteration
SecondPassStep(p, c, opts, n) ==
    LET fileName     == c.bundleEntries[n].key
        id           == c.bundleEntries[n].value
        chunk        == c.heap[id]
        moduleSpec   == ModuleSpec(p, chunk)
        filenameOnly == FilenameOnly(fileName)
    IN  IF NotScriptChunk(fileName, chunk) THEN [ p |-> p, c |-> c ]
        ELSE [ p |-> [ p EXCEPT
                         !.chunkMapping =
                             MapSet(MapSet(MapSet(@, fileName, moduleSpec),
                                           filenameOnly, moduleSpec),
                                    chunk.name, moduleSpec),
                         !.imports =
                             ObjSet(@, moduleSpec, ServedPath(p, opts, filenameOnly)) ],
               c |-> [ c EXCEPT !.specOf[id] = moduleSpec ] ]

\* the candidate test of handleImportSource
IsCandidate(p, specifier) ==
    LET isRelative        == StartsWith(specifier, << ".", "/" >>)
        isAbsolute        == StartsWith(specifier, << "/" >> \o p.resolvedAssetsDir \o << "/" >>)
        isAbsoluteWithDot == StartsWith(specifier,
                                 << ".", "/" >> \o p.resolvedAssetsDir \o << "/" >>)
    IN  isRelative \/ isAbsolute \/ isAbsoluteWithDot

\* RewriteOp with the range of the whole literal, quotes included
RewriteOpWithQuotes(node, moduleSpec) ==
    [ start |-> node.start, end |-> node.end, replacement |-> moduleSpec ]

\* importsToTransform.push({start: source.start + 1, end: source.end - 1, ...})
RewriteOp(node, moduleSpec) ==
    [ start |-> node.start + 1, end |-> node.end - 1, replacement |-> moduleSpec ]

\* handleImportSource(node, importType), behind the visitor that calls it: the
\* entries it pushes on importsToTransform (none or one)
handleImportSource(p, node) ==
    IF node.sourceType # "Literal" THEN << >>
    ELSE IF node.value = << >> THEN << >>
    ELSE IF ~IsCandidate(p, node.value) THEN << >>
    ELSE
        LET filename   == SplitPop(node.value)
            moduleSpec == MapGet(p.chunkMapping, filename)
        IN  IF moduleSpec = << >> THEN << >>
            ELSE << RewriteOp(node, moduleSpec) >>

\* walk(ast, {...}): importsToTransform after the walk
RECURSIVE ImportsToTransform(_, _)
ImportsToTransform(p, nodes) ==
    IF nodes = << >> THEN << >>
    ELSE handleImportSource(p, Head(nodes)) \o ImportsToTransform(p, Tail(nodes))

\* magicString.toString() after the overwrites, for code that parses
TransformedCode(p, code) ==
    MagicToString(code, SortDescending(ImportsToTransform(p, Parse(code).nodes)), 0)

\* const newFileName = baseName ? `${baseName}-${newHash}.js` : filenameOnly
NewFileName(chunk, fileName, transformedCode) ==
    LET newHash == computeHash(StripSourceMaps(transformedCode))
    IN  IF chunk.name # << >> THEN chunk.name \o << "-" >> \o newHash \o JS
        ELSE FilenameOnly(fileName)

\* const newFilePath = fileName.includes('/') ? dir + '/' + newFileName : newFileName
NewFilePath(fileName, newFileName) ==
    IF Includes(fileName, "/")
    THEN SplitInit(fileName) \o << "/" >> \o newFileName
    ELSE newFileName

\* the source map branch: chunk.map after it.  A map that is a string JSON.parse
\* rejects makes the try block throw, and the map is left as it was
NewMap(chunk, newFileName) ==
    IF chunk.map.kind = "none" \/ chunk.map.kind = "badjson" THEN chunk.map
    ELSE [ kind |-> "merged", file |-> newFileName ]

\* third pass, one iteration
ThirdPassStep(p, c, n) ==
    LET fileName == c.bundleEntries[n].key
        id       == c.bundleEntries[n].value
        chunk    == c.heap[id]
    IN  IF NotScriptChunk(fileName, chunk) \/ chunk.code = << >> THEN [ p |-> p, c |-> c ]
        ELSE IF ~Parse(chunk.code).ok THEN [ p |-> p, c |-> [ c EXCEPT !.thrown = TRUE ] ]
        ELSE IF ImportsToTransform(p, Parse(chunk.code).nodes) = << >> THEN [ p |-> p, c |-> c ]
        ELSE
            LET transformedCode == TransformedCode(p, chunk.code)
                newFileName     == NewFileName(chunk, fileName, transformedCode)
                newFilePath     == NewFilePath(fileName, newFileName)
                finalCode       == IF chunk.map.kind # "none"
                                   THEN ReplaceMapComment(transformedCode, newFileName)
                                   ELSE transformedCode
            IN  [ p |-> p,
                  c |-> [ c EXCEPT
                            !.heap[id].code = finalCode,
                            !.heap[id].map = NewMap(chunk, newFileName),
                            !.fileRenames =
                                ObjSet(@, fileName, newFilePath),
                            !.rewritten[id] = transformedCode ] ]

\* fourth pass, one iteration, over Array.from(fileRenames.entries())
FourthPassStep(p, c, opts, n) ==
    LET oldFileName == c.fileRenames[n].key
        newFileName == c.fileRenames[n].value
        id          == ObjGetId(c.bundle, oldFileName)
    IN  IF id = 0 \/ c.heap[id].type # "chunk" THEN [ p |-> p, c |-> c ]
        ELSE
            LET c1 == [ c EXCEPT
                          !.heap[id].fileName = newFileName,
                          !.bundle = ObjSet(ObjDelete(@, oldFileName), newFileName, id) ]
                filenameOnly    == FilenameOnly(oldFileName)
                moduleSpec      == MapGet(p.chunkMapping, filenameOnly)
                newFilenameOnly == FilenameOnly(newFileName)
            IN  IF moduleSpec = << >> THEN [ p |-> p, c |-> c1 ]
                ELSE [ p |-> [ p EXCEPT
                                 !.imports =
                                     ObjSet(@, moduleSpec, ServedPath(p, opts, newFilenameOnly)),
                                 !.chunkMapping =
                                     MapSet(MapSet(MapSet(@, newFileName, moduleSpec),
                                                   newFilenameOnly, moduleSpec),
                                            filenameOnly, moduleSpec) ],
                       c |-> c1 ]

\* transformIndexHtml: importMap.imports sorted by key
RECURSIVE SortImports(_)
SortImports(obj) ==
    IF obj = << >> THEN << >>
    ELSE
        LET k == CHOOSE k \in 1..Len(obj) :
                    \A l \in 1..Len(obj) : ~StrLess(obj[l].key, obj[k].key)
        IN  << obj[k] >> \o SortImports(SubSeq(obj, 1, k - 1) \o SubSeq(obj, k + 1, Len(obj)))

(***************************************************************************)
(* The bundler's side: what a build hands to generateBundle.  A chunk is   *)
(* described by its directory, name, the bundler's hash, its identity and  *)
(* its statements; an import statement names its target chunk, and the     *)
(* source string is the path the bundler writes for it.                    *)
(***************************************************************************)
NoRef == [ dir |-> << >>, name |-> << >>, rhash |-> << >> ]

\* `${name}-${hash}${ext}`, or `${name}${ext}` for an unhashed file
BareName(d) ==
    IF d.rhash = << >> THEN d.name \o d.ext
    ELSE d.name \o << "-" >> \o d.rhash \o d.ext

Join(dir, file) == IF dir = << >> THEN file ELSE dir \o << "/" >> \o file

FileOf(d) == Join(d.dir, BareName(d))

RefFile(r) == Join(r.dir, r.name \o << "-" >> \o r.rhash \o JS)

\* the relative path from a file of fromDir to toFile, as the bundler writes it
RelPath(fromDir, toFile) ==
    IF fromDir = << >> THEN << ".", "/" >> \o toFile
    ELSE IF StartsWith(toFile, fromDir \o << "/" >>)
    THEN << ".", "/" >> \o SubSeq(toFile, Len(fromDir) + 2, Len(toFile))
    ELSE IF StartsWith(toFile, SplitInit(fromDir) \o << "/" >>) /\ Includes(fromDir, "/")
    THEN << ".", ".", "/" >> \o SubSeq(toFile, Len(SplitInit(fromDir)) + 2, Len(toFile))
    ELSE << ".", ".", "/" >> \o toFile

\* the source string of a statement of a chunk of directory dir
SourceOf(dir, st) ==
    CASE st.style = "rel" -> RelPath(dir, RefFile(st.to))
      [] st.style = "abs" -> << "/" >> \o RefFile(st.to)
      [] st.style = "lit" -> st.text

\* one statement of chunk d, as text
RenderStmt(d, st) ==
    CASE st.k \in { "I", "E", "A" } ->
            << st.k, st.q >> \o SourceOf(d.dir, st) \o << st.q >>
      [] st.k = "D"   -> << "D", "(", st.q >> \o SourceOf(d.dir, st) \o << st.q, ")" >>
      [] st.k = "Dv"  -> << "D", "(", "v", ")" >>
      [] st.k = "Ex"  -> << "E", "x" >>
      [] st.k = "t"   -> << "t" >> \o st.text
      [] st.k = "map" -> << HASHMARK >> \o BareName(d) \o MAPEXT
      [] st.k = "bad" -> << "!" >>

RECURSIVE RenderFrom(_, _)
RenderFrom(d, k) ==
    IF k > Len(d.stmts) THEN << >>
    ELSE RenderStmt(d, d.stmts[k])
            \o (IF k < Len(d.stmts) THEN << NL >> ELSE << >>)
            \o RenderFrom(d, k + 1)

\* the chunk object of the OutputBundle
MkChunk(d) ==
    [ type           |-> d.type,
      fileName       |-> FileOf(d),
      name           |-> d.name,
      code           |-> RenderFrom(d, 1),
      facadeModuleId |-> d.facadeModuleId,
      moduleIds      |-> d.moduleIds,
      modules        |-> d.modules,
      map            |-> [ kind |-> d.map, file |-> IF d.map = "none" THEN << >> ELSE BareName(d) ] ]

\* the OutputBundle of a build that emits the chunks ds, in that order
MkBundle(ds) == [ k \in 1..Len(ds) |-> [ key |-> FileOf(ds[k]), value |-> k ] ]

MkHeap(ds) == [ k \in 1..Len(ds) |-> MkChunk(ds[k]) ]

(***************************************************************************)
(* generateBundle as a whole, from plugin state p on the chunks ds: the    *)
(* four passes in order, the third stopping at a throw.                    *)
(***************************************************************************)
RECURSIVE RunFirst(_, _)
RunFirst(s, n) ==
    IF n > Len(s.c.bundleEntries) THEN s
    ELSE RunFirst(FirstPassStep(s.p, s.c, n), n + 1)

RECURSIVE RunSecond(_, _, _)
RunSecond(s, opts, n) ==
    IF n > Len(s.c.bundleEntries) THEN s
    ELSE RunSecond(SecondPassStep(s.p, s.c, opts, n), opts, n + 1)

RECURSIVE RunThird(_, _)
RunThird(s, n) ==
    IF n > Len(s.c.bundleEntries) \/ s.c.thrown THEN s
    ELSE RunThird(ThirdPassStep(s.p, s.c, n), n + 1)

RECURSIVE RunFourth(_, _, _)
RunFourth(s, opts, n) ==
    IF n > Len(s.c.fileRenames) \/ s.c.thrown THEN s
    ELSE RunFourth(FourthPassStep(s.p, s.c, opts, n), opts, n + 1)

generateBundle(p, opts, ds) ==
    LET s0 == [ p |-> p, c |-> NewCall(MkBundle(ds), MkHeap(ds)) ]
    IN  RunFourth(RunThird(RunSecond(RunFirst(s0, 1), opts, 1), 1), opts, 1)

(***************************************************************************)
(* Projects: the options the plugin is created with, the assetsDir of the  *)
(* resolved Vite config, the chunks the bundler can emit for the project,  *)
(* and whether the build watches (generateBundle again on each rebuild).   *)
(***************************************************************************)
Stmt(k, q, style, to, text) ==
    [ k |-> k, q |-> q, style |-> style, to |-> to, text |-> text ]

Rel(k, q, to) == Stmt(k, q, "rel", to, << >>)
Abs(k, q, to) == Stmt(k, q, "abs", to, << >>)
Lit(k, q, text) == Stmt(k, q, "lit", NoRef, text)
Txt(text) == Stmt("t", "'", "lit", NoRef, text)
Plain(k) == Stmt(k, "'", "lit", NoRef, << >>)

Ref(dir, name, rhash) == [ dir |-> dir, name |-> name, rhash |-> rhash ]

Chunk(dir, name, rhash, facade, moduleIds, modules, map, stmts) ==
    [ type |-> "chunk", dir |-> dir, name |-> name, rhash |-> rhash, ext |-> JS,
      facadeModuleId |-> facade, moduleIds |-> moduleIds, modules |-> modules,
      map |-> map, stmts |-> stmts ]

Asset(dir, name, ext) ==
    [ type |-> "asset", dir |-> dir, name |-> name, rhash |-> << >>, ext |-> ext,
      facadeModuleId |-> << >>, moduleIds |-> << >>, modules |-> << >>,
      map |-> "none", stmts |-> << >> ]

DirA  == << "a" >>
DirAS == << "a", "/", "s" >>
DQ == "\""
SQ == "'"

RefB  == Ref(DirA, << "b" >>, << "1" >>)
RefZ  == Ref(DirAS, << "z" >>, << "1" >>)
RefB0 == Ref(<< >>, << "b" >>, << "1" >>)

\* a leaf chunk a/b-1.js, an entry point
ChunkB == Chunk(DirA, << "b" >>, << "1" >>, << "m" >>, << << "m" >> >>, << << "m" >> >>,
                "none", << Txt(<< "1" >>) >>)

\* a/x-1.js: a facade chunk named x of entry module n, with no module of its own
ChunkX1 == Chunk(DirA, << "x" >>, << "1" >>, << "n" >>, << >>, << >>, "none",
                 << Rel("I", SQ, RefB) >>)

\* a/x-2.js: a chunk named x with the same code and no identity at all
ChunkX2 == Chunk(DirA, << "x" >>, << "2" >>, << >>, << >>, << >>, "none",
                 << Rel("I", SQ, RefB) >>)

\* a/x-3.js: the chunk named x that holds module n, with a source map
ChunkX3 == Chunk(DirA, << "x" >>, << "3" >>, << >>, << << "n" >> >>, << << "n" >> >>, "map",
                 << Rel("D", DQ, RefB), Lit("I", SQ, << "u" >>), Plain("Dv"), Plain("map") >>)

\* a/x-4.js: a fourth, identified by the first key of its module table
ChunkX4 == Chunk(DirA, << "x" >>, << "4" >>, << >>, << >>, << << "p" >> >>, "badjson",
                 << Abs("E", SQ, RefB), Plain("Ex"), Plain("map") >>)

\* a/s/z-1.js: a leaf in a subdirectory
ChunkZ == Chunk(DirAS, << "z" >>, << "1" >>, << >>, << << "z" >> >>, << << "z" >> >>,
                "none", << Txt(<< "2" >>) >>)

\* a/s/y-1.js: imports its sibling z and the entry b of the parent directory
ChunkY == Chunk(DirAS, << "y" >>, << "1" >>, << >>, << << "y" >> >>, << << "y" >> >>,
                "none", << Rel("I", SQ, RefZ), Rel("I", SQ, RefB) >>)

\* a/s/b-1.js: another chunk named b, with the bare filename of a/b-1.js
ChunkBS == Chunk(DirAS, << "b" >>, << "1" >>, << "n" >>, << << "n" >> >>, << << "n" >> >>,
                 "none", << Txt(<< "3" >>) >>)

\* a/p-1.js: imports a/b-1.js
ChunkP == Chunk(DirA, << "p" >>, << "1" >>, << "p" >>, << << "p" >> >>, << << "p" >> >>,
                "none", << Rel("I", SQ, RefB) >>)

\* a/e-1.js: imports a/s/z-1.js
ChunkE == Chunk(DirA, << "e" >>, << "1" >>, << "e" >>, << << "e" >> >>, << << "e" >> >>,
                "none", << Rel("A", DQ, RefZ) >>)

\* a/s/e-1.js: another chunk named e, with the bare filename of a/e-1.js
ChunkES == Chunk(DirAS, << "e" >>, << "1" >>, << "s" >>, << << "s" >> >>, << << "s" >> >>,
                 "none", << Rel("D", SQ, RefZ) >>)

\* files at the root of the output directory (build.assetsDir '')
ChunkB0 == Chunk(<< >>, << "b" >>, << "1" >>, << "m" >>, << << "m" >> >>, << << "m" >> >>,
                 "none", << Txt(<< "1" >>) >>)
ChunkX0 == Chunk(<< >>, << "x" >>, << "1" >>, << "x" >>, << << "x" >> >>, << << "x" >> >>,
                 "none", << Rel("I", SQ, RefB0) >>)
\* y-1.js: code acorn rejects
ChunkBad == Chunk(<< >>, << "y" >>, << "1" >>, << "y" >>, << << "y" >> >>, << << "y" >> >>,
                  "none", << Txt(<< "1" >>), Plain("bad") >>)
\* c.css
AssetC == Asset(<< >>, << "c" >>, << ".", "c", "s", "s" >>)

\* the statements a generated chunk of directory a is made of
GenStmts ==
    { Rel("I", SQ, RefB),
      Abs("D", DQ, RefB),
      Lit("A", DQ, << ".", "/", "b" >>),
      Lit("E", SQ, << ".", "/", "z", "-", "9", ".", "j", "s" >>),
      Lit("I", SQ, << "u" >>),
      Lit("I", DQ, << "/", "e", "/", "b", "-", "1", ".", "j", "s" >>),
      Plain("Dv"),
      Txt(<< "1" >>) }

RECURSIVE StmtSeqs(_)
StmtSeqs(n) ==
    IF n = 0 THEN { << >> }
    ELSE LET shorter == StmtSeqs(n - 1)
         IN  shorter \cup { Append(ss, st) : ss \in shorter, st \in GenStmts }

\* a/y-1.js with each sequence of at most MaxStmts statements
GenChunks ==
    { Chunk(DirA, << "y" >>, << "1" >>, << "y" >>, << << "y" >> >>, << << "y" >> >>,
            "none", ss) : ss \in StmtSeqs(MaxStmts) \ { << >> } }

DefaultOptions == [ assetsDir |-> << >>, useAbsolutePaths |-> TRUE ]

Projects ==
    << [ id |-> "watch", options |-> DefaultOptions, configAssetsDir |-> DirA,
         watch |-> TRUE, pool |-> { ChunkB, ChunkX1 } ],
       [ id |-> "names", options |-> DefaultOptions, configAssetsDir |-> DirA,
         watch |-> FALSE, pool |-> { ChunkB, ChunkX1, ChunkX2, ChunkX3, ChunkX4 } ],
       [ id |-> "dirs", options |-> [ assetsDir |-> DirA, useAbsolutePaths |-> FALSE ],
         configAssetsDir |-> DirA,
         watch |-> FALSE, pool |-> { ChunkB, ChunkZ, ChunkY, ChunkBS, ChunkP, ChunkE, ChunkES } ],
       [ id |-> "root", options |-> DefaultOptions, configAssetsDir |-> << >>,
         watch |-> FALSE, pool |-> { ChunkB0, ChunkX0, ChunkBad, AssetC } ],
       [ id |-> "gen", options |-> DefaultOptions, configAssetsDir |-> DirA,
         watch |-> FALSE, pool |-> { ChunkB } \cup GenChunks ] >>

ProjectIds == 1..Len(Projects)

\* the bundles of at most n chunks of a pool, no two of one file name
RECURSIVE BundlesUpTo(_, _)
BundlesUpTo(pool, n) ==
    IF n = 0 THEN { << >> }
    ELSE LET shorter == BundlesUpTo(pool, n - 1)
         IN  shorter \cup
             UNION { { Append(ds, d) :
                         d \in { e \in pool :
                                   \A k \in 1..Len(ds) : FileOf(ds[k]) # FileOf(e) } } :
                     ds \in shorter }

\* every chunk that a chunk of ds imports is a chunk of ds
Closed(ds) ==
    \A k \in 1..Len(ds) : \A n \in 1..Len(ds[k].stmts) :
        ds[k].stmts[n].style \in { "rel", "abs" } =>
            \E j \in 1..Len(ds) : FileOf(ds[j]) = RefFile(ds[k].stmts[n].to)

\* the bundles a build of each project can hand to generateBundle
Bundles ==
    [ k \in ProjectIds |->
        { ds \in BundlesUpTo(Projects[k].pool, MaxChunks) : ds # << >> /\ Closed(ds) } ]

Options(k) == Projects[k].options

(***************************************************************************)
(* The state machine.                                                      *)
(***************************************************************************)
VARIABLES
    project,      \* the project being built (its index in Projects)
    plugin,       \* the closure state of the plugin instance
    call,         \* the current (or last) generateBundle invocation
    input,        \* the chunks the bundler emitted for it
    pc,           \* "new", "idle", "first" .. "fourth", "returned", "thrown"
    idx,          \* the loop index of the running pass
    invocations,  \* generateBundle invocations so far
    emitted       \* what transformIndexHtml last injected

vars == << project, plugin, call, input, pc, idx, invocations, emitted >>

NoCall == NewCall(<< >>, << >>)

Init ==
    /\ project \in ProjectIds
    /\ plugin = NewPlugin(Options(project))
    /\ call = NoCall
    /\ input = << >>
    /\ pc = "new"
    /\ idx = 0
    /\ invocations = 0
    /\ emitted = [ called |-> FALSE, imports |-> << >> ]

ConfigResolved ==
    /\ pc = "new"
    /\ plugin' = configResolved(plugin, Options(project), Projects[project].configAssetsDir)
    /\ pc' = "idle"
    /\ UNCHANGED << project, call, input, idx, invocations, emitted >>

Between == pc \in { "idle", "returned", "thrown" }

CanBuild ==
    /\ Between
    /\ invocations < (IF Projects[project].watch THEN MaxInvocations ELSE 1)

\* the host calls generateBundle(_options, bundle)
GenerateBundle(ds) ==
    /\ CanBuild
    /\ call' = NewCall(MkBundle(ds), MkHeap(ds))
    /\ input' = ds
    /\ pc' = "first"
    /\ idx' = 1
    /\ invocations' = invocations + 1
    /\ UNCHANGED << project, plugin, emitted >>

Last == idx = Len(call.bundleEntries)

FirstPass ==
    /\ pc = "first"
    /\ LET s == FirstPassStep(plugin, call, idx)
       IN  /\ plugin' = s.p
           /\ call' = s.c
    /\ pc' = IF Last THEN "second" ELSE pc
    /\ idx' = IF Last THEN 1 ELSE idx + 1
    /\ UNCHANGED << project, input, invocations, emitted >>

SecondPass ==
    /\ pc = "second"
    /\ LET s == SecondPassStep(plugin, call, Options(project), idx)
       IN  /\ plugin' = s.p
           /\ call' = s.c
    /\ pc' = IF Last THEN "third" ELSE pc
    /\ idx' = IF Last THEN 1 ELSE idx + 1
    /\ UNCHANGED << project, input, invocations, emitted >>

ThirdPass ==
    /\ pc = "third"
    /\ LET s == ThirdPassStep(plugin, call, idx)
       IN  /\ plugin' = s.p
           /\ call' = s.c
           /\ pc' = IF s.c.thrown THEN "thrown"
                    ELSE IF ~Last THEN pc
                    ELSE IF s.c.fileRenames = << >> THEN "returned"
                    ELSE "fourth"
           /\ idx' = IF s.c.thrown \/ Last THEN 1 ELSE idx + 1
    /\ UNCHANGED << project, input, invocations, emitted >>

FourthPass ==
    /\ pc = "fourth"
    /\ LET s == FourthPassStep(plugin, call, Options(project), idx)
       IN  /\ plugin' = s.p
           /\ call' = s.c
    /\ pc' = IF idx = Len(call.fileRenames) THEN "returned" ELSE pc
    /\ idx' = IF idx = Len(call.fileRenames) THEN 1 ELSE idx + 1
    /\ UNCHANGED << project, input, invocations, emitted >>

\* the host calls transformIndexHtml()
TransformIndexHtml ==
    /\ Between
    /\ plugin' = [ plugin EXCEPT !.imports = SortImports(@) ]
    /\ emitted' = [ called |-> TRUE, imports |-> SortImports(plugin.imports) ]
    /\ UNCHANGED << project, call, input, pc, idx, invocations >>

Next ==
    \/ ConfigResolved
    \/ CanBuild /\ \E ds \in Bundles[project] : GenerateBundle(ds)
    \/ FirstPass
    \/ SecondPass
    \/ ThirdPass
    \/ FourthPass
    \/ TransformIndexHtml

Spec == Init /\ [][Next]_vars

(***************************************************************************)
(* What the properties below speak of.                                     *)
(***************************************************************************)
\* the chunk object id as the bundler emitted it, and the key it was emitted under
OrigChunk(id) == MkChunk(input[id])
OrigKey(id) == FileOf(input[id])

Ids == 1..Len(input)

\* the script chunks of the bundle passed in
ScriptIds == { id \in Ids : ~NotScriptChunk(OrigKey(id), OrigChunk(id)) }

\* the plugin as it is when the first generateBundle of a project starts
FreshPlugin ==
    configResolved(NewPlugin(Options(project)), Options(project),
                   Projects[project].configAssetsDir)

\* importMap.imports[spec], << >> when there is no such key
TableGet(imports, spec) ==
    IF HasKey(imports, spec) THEN imports[KeyIndex(imports, spec)].value ELSE << >>

(***************************************************************************)
(* C7.  The text the rewriter is to produce, statement by statement: the   *)
(* characters between the quotes of a source literal are replaced by the   *)
(* stable specifier when the literal is a candidate ('./...', or under the *)
(* assets directory) whose last path segment is in the mapping; all other  *)
(* text is kept.                                                           *)
(***************************************************************************)
Accepted(dir, src) ==
    \/ StartsWith(src, << ".", "/" >>)
    \/ StartsWith(src, << "/" >> \o dir \o << "/" >>)
    \/ StartsWith(src, << ".", "/" >> \o dir \o << "/" >>)

Replaceable(mapping, dir, src) ==
    /\ src # << >>
    /\ Accepted(dir, src)
    /\ SplitPop(src) \in DOMAIN mapping
    /\ mapping[SplitPop(src)] # << >>

ExpectedLine(mapping, dir, line) ==
    IF /\ Len(line) >= 3
       /\ line[1] \in { "I", "E", "A" }
       /\ IsQuoted(Tail(line))
       /\ Replaceable(mapping, dir, SubSeq(line, 3, Len(line) - 1))
    THEN << line[1], line[2] >> \o mapping[SplitPop(SubSeq(line, 3, Len(line) - 1))]
            \o << line[Len(line)] >>
    ELSE IF /\ Len(line) >= 5
            /\ line[1] = "D" /\ line[2] = "(" /\ line[Len(line)] = ")"
            /\ IsQuoted(SubSeq(line, 3, Len(line) - 1))
            /\ Replaceable(mapping, dir, SubSeq(line, 4, Len(line) - 2))
    THEN << "D", "(", line[3] >> \o mapping[SplitPop(SubSeq(line, 4, Len(line) - 2))]
            \o << line[Len(line) - 1], ")" >>
    ELSE line

RECURSIVE ExpectedFrom(_, _, _, _)
ExpectedFrom(mapping, dir, code, p) ==
    IF p > Len(code) THEN << >>
    ELSE
        LET e == LineEnd(code, p)
        IN  ExpectedLine(mapping, dir, SubSeq(code, p, e - 1))
                \o (IF e <= Len(code) THEN << NL >> ELSE << >>)
                \o ExpectedFrom(mapping, dir, code, e + 1)

ExpectedRewrite(code) ==
    ExpectedFrom(plugin.chunkMapping, plugin.resolvedAssetsDir, code, 1)

\* the third pass has dealt with chunk id and the mapping is still the one it read
AfterRewriteOf(id) ==
    \/ pc = "third" /\ id < idx
    \/ pc = "fourth" /\ idx = 1

\* C7: the rewritten code of a chunk is its original code with exactly the
\* contents of every accepted, mapped source literal replaced by the stable
\* specifier: quotes and all other characters are unchanged, and a chunk with no
\* such literal keeps its code.
C7_RewriteExact ==
    \A id \in Ids :
        AfterRewriteOf(id) =>
            LET orig     == OrigChunk(id).code
                expected == ExpectedRewrite(orig)
            IN  IF id \notin ScriptIds \/ orig = << >> \/ expected = orig
                THEN /\ call.rewritten[id] = << >>
                     /\ call.heap[id].code = orig
                ELSE /\ call.rewritten[id] = expected
                     /\ OrigChunk(id).map.kind = "none" => call.heap[id].code = expected

\* the source literals of code that differ from those of orig, as a count
ChangedSites(orig, code) ==
    Cardinality({ n \in 1..Len(Parse(orig).nodes) :
                    Parse(orig).nodes[n].value # Parse(code).nodes[n].value })

\* a chunk with two literals replaced, of different lengths, has been rewritten
C7_Witness ==
    \E id \in Ids :
        /\ AfterRewriteOf(id)
        /\ call.rewritten[id] # << >>
        /\ ChangedSites(OrigChunk(id).code, call.rewritten[id]) = 2
        /\ \E n, m \in 1..Len(Parse(OrigChunk(id).code).nodes) :
              Len(Parse(OrigChunk(id).code).nodes[n].value)
                  # Len(Parse(OrigChunk(id).code).nodes[m].value)

(***************************************************************************)
(* The file a source string of a chunk of directory dir refers to: a       *)
(* relative path from that directory, or a path from the served root;      *)
(* << >> for a bare specifier.                                             *)
(***************************************************************************)
DirOf(fileName) == IF Includes(fileName, "/") THEN SplitInit(fileName) ELSE << >>

Resolve(dir, src) ==
    IF StartsWith(src, << ".", "/" >>) THEN Join(dir, SubSeq(src, 3, Len(src)))
    ELSE IF StartsWith(src, << ".", ".", "/" >>) /\ dir # << >>
    THEN Join(DirOf(dir), SubSeq(src, 4, Len(src)))
    ELSE IF StartsWith(src, << "/" >>) THEN Tail(src)
    ELSE << >>

\* the source literals of code: the values of its import, re-export and
\* literal dynamic import sites, in source order
Sources(code) ==
    LET nodes == Parse(code).nodes
        lits  == { n \in 1..Len(nodes) : nodes[n].sourceType = "Literal" }
    IN  [ n \in lits |-> nodes[n].value ]

\* C1: after generateBundle returns, no source literal of a script chunk's code
\* refers to the file of a script chunk of the bundle, under its name before or
\* after the rename.
C1_NoHashedReference ==
    pc = "returned" =>
        \A a \in ScriptIds : \A b \in ScriptIds :
            \A n \in DOMAIN Sources(call.heap[a].code) :
                LET file == Resolve(DirOf(OrigKey(a)), Sources(call.heap[a].code)[n])
                IN  /\ file # OrigKey(b)
                    /\ file # call.heap[b].fileName

(***************************************************************************)
(* C2.  The build that differs from the one that ran in chunk b alone: b   *)
(* has other code, so the bundler gives it another hash, and writes that   *)
(* file name into the chunks that import b.                                *)
(***************************************************************************)
OtherHash == << "9" >>

RefOf(d) == Ref(d.dir, d.name, d.rhash)

Variant(ds, b) ==
    [ k \in 1..Len(ds) |->
        IF k = b
        THEN [ ds[b] EXCEPT !.rhash = OtherHash, !.stmts = Append(@, Txt(OtherHash)) ]
        ELSE [ ds[k] EXCEPT !.stmts =
                 [ n \in 1..Len(ds[k].stmts) |->
                     IF ds[k].stmts[n].style \in { "rel", "abs" }
                        /\ ds[k].stmts[n].to = RefOf(ds[b])
                     THEN [ ds[k].stmts[n] EXCEPT !.to = Ref(ds[b].dir, ds[b].name, OtherHash) ]
                     ELSE ds[k].stmts[n] ] ] ]

\* C2: when the first build of a plugin instance has returned, every chunk other
\* than b has the final file name it gets in the build that differs in b alone.
C2_NoCascade ==
    (pc = "returned" /\ invocations = 1) =>
        \A b \in ScriptIds :
            LET other == generateBundle(FreshPlugin, Options(project), Variant(input, b))
            IN  ~other.c.thrown =>
                    \A a \in Ids \ { b } :
                        other.c.heap[a].fileName = call.heap[a].fileName

\* C3: after the fourth pass the resolution table maps the specifier assigned to
\* every script chunk of the final bundle to the served path of its final file.
C3_TableFinal ==
    pc = "returned" =>
        \A n \in 1..Len(call.bundle) :
            LET id   == call.bundle[n].value
                file == call.heap[id].fileName
            IN  ~NotScriptChunk(call.bundle[n].key, call.heap[id]) =>
                    TableGet(plugin.imports, call.specOf[id])
                        = ServedPath(plugin, Options(project), FilenameOnly(file))

\* C4: after the second pass any two distinct script chunks have distinct
\* stable specifiers.
C4_UniqueSpecifiers ==
    pc \in { "third", "fourth", "returned", "thrown" } =>
        \A a \in ScriptIds : \A b \in ScriptIds :
            a # b => call.specOf[a] # call.specOf[b]

\* C5: within the first generateBundle of a plugin instance, a step neither
\* removes an alias from chunkMapping nor binds it to another specifier.
C5_AliasesStable ==
    [][ (invocations = 1 /\ invocations' = 1) =>
            \A alias \in DOMAIN plugin.chunkMapping :
                /\ alias \in DOMAIN plugin'.chunkMapping
                /\ plugin'.chunkMapping[alias] = plugin.chunkMapping[alias] ]_vars

\* C6: a generateBundle that has returned has given the specifiers, the
\* resolution table and the code that a first invocation on a new plugin
\* instance gives for the same chunks.
C6_SameAsFirstInvocation ==
    pc = "returned" =>
        LET first == generateBundle(FreshPlugin, Options(project), input)
        IN  /\ call.specOf = first.c.specOf
            /\ SortImports(plugin.imports) = SortImports(first.p.imports)
            /\ \A id \in Ids : call.heap[id].code = first.c.heap[id].code

\* C8: when generateBundle throws in its first invocation, no chunk has other
\* code or another fileName than it came with, no key of the bundle is renamed,
\* and the resolution table holds no entry.
C8_ThrowLeavesNothing ==
    (pc = "thrown" /\ invocations = 1) =>
        /\ \A id \in Ids :
              /\ call.heap[id].code = OrigChunk(id).code
              /\ call.heap[id].fileName = OrigChunk(id).fileName
        /\ call.bundle = MkBundle(input)
        /\ plugin.imports = << >>

\* C9: in the first build of a plugin instance, where the rewriter replaced a
\* source literal of chunk a that referred to the file of chunk b, it wrote the
\* specifier assigned to b, and the resolution table maps that specifier to the
\* served path of b's final file.
C9_ResolvesToTarget ==
    (pc = "returned" /\ invocations = 1) =>
        \A a \in ScriptIds : \A b \in ScriptIds :
            call.rewritten[a] # << >> =>
                \A n \in DOMAIN Sources(OrigChunk(a).code) :
                    LET src     == Sources(OrigChunk(a).code)[n]
                        written == Sources(call.rewritten[a])[n]
                    IN  (written # src /\ Resolve(DirOf(OrigKey(a)), src) = OrigKey(b)) =>
                            /\ written = call.specOf[b]
                            /\ TableGet(plugin.imports, written)
                                 = ServedPath(plugin, Options(project),
                                              FilenameOnly(call.heap[b].fileName))

\* C10: after the fourth pass every chunk that came in the bundle is in it under
\* exactly one key, its fileName, and the bundle has as many entries as it came with.
C10_NoChunkLost ==
    pc = "returned" =>
        /\ Len(call.bundle) = Len(input)
        /\ \A id \in Ids :
              /\ Cardinality({ n \in 1..Len(call.bundle) : call.bundle[n].value = id }) = 1
              /\ \A n \in 1..Len(call.bundle) :
                    call.bundle[n].value = id => call.bundle[n].key = call.heap[id].fileName

====
